---- MODULE Spec2Model ----
(***************************************************************************)
(* Model of src/main.py: a Streamlit page that loads a regression model    *)
(* through a memoised loader (load_model, lines 17-28), renders three      *)
(* sliders (lines 31-65) and, on a button press, builds a one-row record   *)
(* and calls model.predict (lines 78-101).                                 *)
(*                                                                         *)
(* Every user interaction of a browser session re-executes the script top  *)
(* to bottom in a fresh namespace.  Sessions run concurrently and share    *)
(* the st.cache_resource cache of load_model.                              *)
(*                                                                         *)
(* Numbers are fixed point: slider values in hundredths (241.7 = 24170),   *)
(* model outputs in thousandths (1.67 = 1670).                             *)
(***************************************************************************)
EXTENDS Integers, Sequences, FiniteSets, TLC

\* ------------------------------------------------------------- bounds
\* Script runs (interactions) started in one behaviour, over all sessions.
MaxRuns == 5

\* Browser sessions sharing the process.
Sessions == {"s1", "s2"}

NoSession == "none"

\* ------------------------------------------------- program constants
\* main.py:28, the only path the script ever passes to load_model.
ModelPath == "modelo.joblib"

\* main.py:38-44: amine flow slider, min_value / value / max_value.
AminaMin == 24170
AminaDefault == 48843
AminaMax == 73930

\* main.py:48-54: air flow slider.
AirMin == 17585
AirDefault == 20013
AirMax == 37244

\* main.py:58-64: iron concentration slider.
IronMin == 6251
IronDefault == 6504
IronMax == 6801

\* Positions each slider is moved to in the model.
AminaValues == {AminaMin, AminaDefault, AminaMax}
AirValues == {AirMin, AirDefault, AirMax}
IronValues == {IronMin, IronDefault, IronMax}

DefaultWidgets == [amina |-> AminaDefault, air |-> AirDefault, iron |-> IronDefault]

\* Names the slider assignments bind (lines 38, 48, 58).
SliderNames == [amina |-> "flowrate1", air |-> "Flowrate2", iron |-> "concentration"]

\* Names the record construction reads, in evaluation order (lines 86-88).
HandlerNames == <<"Flowrate1", "Flowrate2", "Concentration">>

\* Column labels of the record, in order (lines 86-88).
Columns == <<"Amina Flow", "Flotation Column 01 Air Flow", "% Iron Concentrate">>

\* ------------------------------------------------ environment choices
\* State of the file at ModelPath.
FileStates == {"valid", "missing", "corrupt"}

\* Outputs (thousandths) of a stub model whose predict returns a fixed value.
StubOutputs == {1670, 1676}

Stubs == [kind : {"returns"}, value : StubOutputs] \cup {[kind |-> "raises", value |-> 0]}

VARIABLES
    file,         \* state of the model file on disk
    stub,         \* behaviour of predict of the object stored in the file
    sliderOk,     \* whether st.slider accepts float bounds with an int step
    cache,        \* st.cache_resource store of load_model: path -> entry
    lock,         \* holder of the cache's compute lock
    loads,        \* number of joblib.load invocations
    instances,    \* number of Model objects deserialised
    predictCalls, \* records passed to model.predict, in order
    runs,         \* script runs started
    pc,           \* per session: position in the script run
    pressed,      \* per session: this run was triggered by the predict button
    widgets,      \* per session: slider values
    model,        \* per session: the script's variable `model` (line 28)
    screen,       \* per session: elements shown by the current/last run
    crashAt,      \* per session: where the run raised an uncaught exception
    predictLog    \* history: one entry per finished predict interaction, in order

vars == <<file, stub, sliderOk, cache, lock, loads, instances, predictCalls, runs,
          pc, pressed, widgets, model, screen, crashAt, predictLog>>

env == <<file, stub, sliderOk>>

\* ------------------------------------------------------------ values
Unbound == [kind |-> "unbound", id |-> 0]
None == [kind |-> "None", id |-> 0]
ModelObj(i) == [kind |-> "Model", id |-> i]

El(tag) == [tag |-> tag, val |-> <<>>]
ElV(tag, v) == [tag |-> tag, val |-> v]

NoEntry == [present |-> FALSE, value |-> Unbound, messages |-> {}]
EmptyCache == [p \in {ModelPath} |-> NoEntry]

\* --------------------------------------------------------- load_model
\* joblib.load(model_path), line 21: what the call does for each file state.
JoblibLoad(path) ==
    CASE file = "valid" -> [exc |-> "none", obj |-> ModelObj(instances + 1)]
      [] file = "missing" -> [exc |-> "FileNotFoundError", obj |-> Unbound]
      [] OTHER -> [exc |-> "UnpicklingError", obj |-> Unbound]

\* The except clause of line 23 matches FileNotFoundError and nothing else.
Handles(exc) == exc = "FileNotFoundError"

\* load_model without its except clause: every exception propagates.
LoadModelNoExcept(path) ==
    LET r == JoblibLoad(path) IN
    IF r.exc = "none"
    THEN [raised |-> FALSE, value |-> r.obj, messages |-> {}]
    ELSE [raised |-> TRUE, value |-> Unbound, messages |-> {}]

\* Body of load_model, lines 18-25: the returned value, the elements it
\* shows (st.error, line 24) and whether an exception leaves the function.
LoadModel(path) ==
    LET r == JoblibLoad(path) IN
    IF r.exc = "none"
    THEN [raised |-> FALSE, value |-> r.obj, messages |-> {}]
    ELSE IF Handles(r.exc)
    THEN [raised |-> FALSE, value |-> None, messages |-> {El("load_error")}]
    ELSE [raised |-> TRUE, value |-> Unbound, messages |-> {}]

\* A loader whose results are never stored.
CacheWriteDropped(c, path, value, messages) == c

\* @st.cache_resource, line 17: store the returned value with the elements
\* the call showed, under the call's argument.
CacheWrite(c, path, value, messages) ==
    [c EXCEPT ![path] = [present |-> TRUE, value |-> value, messages |-> messages]]

\* ---------------------------------------------------------- the script
\* Names bound in the run's namespace after the sidebar block, lines 38-64.
Namespace(w) ==
    [n \in {SliderNames.amina, SliderNames.air, SliderNames.iron} |->
        CASE n = SliderNames.amina -> w.amina
          [] n = SliderNames.air -> w.air
          [] OTHER -> w.iron]

\* pd.DataFrame({...}), lines 85-89: one row, the columns in this order.
\* Defined when every name it reads is bound.
DfInput(ns) == [i \in 1..3 |-> <<Columns[i], ns[HandlerNames[i]]>>]

\* Names of lines 86-88 that are not bound: Python raises NameError.
UnboundNames(ns) == {i \in 1..3 : HandlerNames[i] \notin DOMAIN ns}

\* model.predict(df_input), line 93, for the stub stored in the file.
Predict(m, df) ==
    IF stub.kind = "raises"
    THEN [raised |-> TRUE, out |-> <<>>]
    ELSE [raised |-> FALSE, out |-> <<stub.value>>]

\* f"{x:.2f}%", line 96: x in thousandths, rounded to hundredths and shown
\* as <<integer part, two fraction digits>>.
Format2f(x) ==
    LET h == (x + 5) \div 10 IN <<h \div 100, h % 100>>

\* Lines 85-99, entered when the button was pressed with a model loaded.
Handler(m, ns) ==
    IF UnboundNames(ns) # {}
    THEN [screen |-> {El("exception")}, crashAt |-> "handler", calls |-> <<>>]
    ELSE LET df == DfInput(ns)
             r == Predict(m, df)
         IN IF r.raised
            THEN [screen |-> {El("predict_error")}, crashAt |-> "none", calls |-> <<df>>]
            ELSE [screen |-> {El("subheader"), ElV("success", Format2f(r.out[1])), El("info")},
                  crashAt |-> "none", calls |-> <<df>>]

\* Lines 31-101 of one run: sliders, then the prediction block.  Each slider
\* is given float min_value/max_value/value and the int step=1 (lines 40-43);
\* whether st.slider accepts the mix or raises at line 38 is the toolkit's
\* choice, held in sliderOk.  The block is session-local, so it is one step.
ScriptResult(m, w, isPressed) ==
    IF ~sliderOk
    THEN [screen |-> {El("exception")}, crashAt |-> "slider", calls |-> <<>>]
    ELSE IF m.kind = "Model"
    THEN IF isPressed
         THEN LET h == Handler(m, Namespace(w)) IN
              [h EXCEPT !.screen = {El("sliders"), El("button")} \cup h.screen]
         ELSE [screen |-> {El("sliders"), El("button")}, crashAt |-> "none", calls |-> <<>>]
    ELSE [screen |-> {El("sliders"), El("warning")}, crashAt |-> "none", calls |-> <<>>]

\* ------------------------------------------------------------- state
Init ==
    /\ file \in FileStates
    /\ stub \in (IF file = "valid" THEN Stubs ELSE {[kind |-> "raises", value |-> 0]})
    /\ sliderOk \in BOOLEAN
    /\ cache = EmptyCache
    /\ lock = NoSession
    /\ loads = 0
    /\ instances = 0
    /\ predictCalls = <<>>
    /\ runs = 0
    /\ pc = [s \in Sessions |-> "idle"]
    /\ pressed = [s \in Sessions |-> FALSE]
    /\ widgets = [s \in Sessions |-> DefaultWidgets]
    /\ model = [s \in Sessions |-> Unbound]
    /\ screen = [s \in Sessions |-> {}]
    /\ crashAt = [s \in Sessions |-> "none"]
    /\ predictLog = <<>>

\* A script run begins: fresh namespace, empty page, line 28 next.
BeginRun(s, w, isPressed) ==
    /\ pc[s] = "idle"
    /\ runs < MaxRuns
    /\ runs' = runs + 1
    /\ pc' = [pc EXCEPT ![s] = "load"]
    /\ pressed' = [pressed EXCEPT ![s] = isPressed]
    /\ widgets' = [widgets EXCEPT ![s] = w]
    /\ model' = [model EXCEPT ![s] = Unbound]
    /\ screen' = [screen EXCEPT ![s] = {}]
    /\ crashAt' = [crashAt EXCEPT ![s] = "none"]
    /\ UNCHANGED <<env, cache, lock, loads, instances, predictCalls, predictLog>>

\* The page is opened or reloaded: sliders at their initial values.
OpenPage(s) == BeginRun(s, DefaultWidgets, FALSE)

\* A slider shown by the last run is moved (lines 38-64): the script reruns.
MoveSlider(s) ==
    /\ El("sliders") \in screen[s]
    /\ \E w \in [amina : AminaValues, air : AirValues, iron : IronValues] :
        /\ Cardinality({f \in {"amina", "air", "iron"} : w[f] # widgets[s][f]}) = 1
        /\ BeginRun(s, w, FALSE)

\* The button shown by the last run is pressed (line 82): the script reruns
\* and st.button returns True in that run.
PressPredict(s) ==
    /\ El("button") \in screen[s]
    /\ BeginRun(s, widgets[s], TRUE)

\* The call of line 28 returns value v, showing the elements msgs.
Returned(s, v, msgs) ==
    /\ model' = [model EXCEPT ![s] = v]
    /\ screen' = [screen EXCEPT ![s] = screen[s] \cup msgs]
    /\ pc' = [pc EXCEPT ![s] = "script"]
    /\ UNCHANGED crashAt

\* Line 28 through the cache wrapper, first look-up without the lock: a hit
\* returns the stored value and replays the stored elements.
CacheRead(s) ==
    /\ pc[s] = "load"
    /\ IF cache[ModelPath].present
       THEN Returned(s, cache[ModelPath].value, cache[ModelPath].messages)
       ELSE /\ pc' = [pc EXCEPT ![s] = "wait"]
            /\ UNCHANGED <<model, screen, crashAt>>
    /\ UNCHANGED <<env, cache, lock, loads, instances, predictCalls, runs,
                   pressed, widgets, predictLog>>

\* A miss takes the cache's compute lock.
LockAcquire(s) ==
    /\ pc[s] = "wait"
    /\ lock = NoSession
    /\ lock' = s
    /\ pc' = [pc EXCEPT ![s] = "compute"]
    /\ UNCHANGED <<env, cache, loads, instances, predictCalls, runs,
                   pressed, widgets, model, screen, crashAt, predictLog>>

\* Under the lock: look up again; on a miss run load_model (lines 18-25) and
\* store what it returns.  An exception leaving load_model is stored nowhere
\* and ends the run at line 28.  The lock is released on every path.
ComputeLocked(s) ==
    /\ pc[s] = "compute"
    /\ lock = s
    /\ lock' = NoSession
    /\ IF cache[ModelPath].present
       THEN /\ Returned(s, cache[ModelPath].value, cache[ModelPath].messages)
            /\ UNCHANGED <<cache, loads, instances>>
       ELSE LET r == LoadModel(ModelPath) IN
            /\ loads' = loads + 1
            /\ instances' = IF r.value.kind = "Model" THEN instances + 1 ELSE instances
            /\ IF r.raised
               THEN /\ pc' = [pc EXCEPT ![s] = "idle"]
                    /\ crashAt' = [crashAt EXCEPT ![s] = "load_model"]
                    /\ screen' = [screen EXCEPT ![s] = screen[s] \cup {El("exception")}]
                    /\ UNCHANGED <<cache, model>>
               ELSE /\ cache' = CacheWrite(cache, ModelPath, r.value, r.messages)
                    /\ Returned(s, r.value, r.messages)
    /\ UNCHANGED <<env, predictCalls, runs, pressed, widgets, predictLog>>

\* Lines 31-101 with the cache left as cacheAfter.
ScriptStep(s, cacheAfter) ==
    /\ pc[s] = "script"
    /\ LET r == ScriptResult(model[s], widgets[s], pressed[s])
           shown == screen[s] \cup r.screen
       IN /\ screen' = [screen EXCEPT ![s] = shown]
          /\ crashAt' = [crashAt EXCEPT ![s] = r.crashAt]
          /\ predictCalls' = predictCalls \o r.calls
          /\ predictLog' =
                IF pressed[s]
                THEN Append(predictLog,
                            [inputs |-> widgets[s], shown |-> shown, crashAt |-> r.crashAt,
                             cacheBefore |-> cache, cacheAfter |-> cacheAfter,
                             started |-> runs])
                ELSE predictLog
    /\ cache' = cacheAfter
    /\ pc' = [pc EXCEPT ![s] = "idle"]
    /\ UNCHANGED <<env, lock, loads, instances, runs, pressed, widgets, model>>

\* The rest of the script evicting the cached model when the button was pressed.
ScriptBodyEvicts(s) == ScriptStep(s, IF pressed[s] THEN EmptyCache ELSE cache)

\* The rest of the script, lines 31-101: nothing in it writes the cache.
ScriptBody(s) == ScriptStep(s, cache)

Next ==
    \E s \in Sessions :
        \/ OpenPage(s)
        \/ MoveSlider(s)
        \/ PressPredict(s)
        \/ CacheRead(s)
        \/ LockAcquire(s)
        \/ ComputeLocked(s)
        \/ ScriptBody(s)

Spec == Init /\ [][Next]_vars

\* ------------------------------------------------------------- claims
\* The session's last run has ended (normally or by an uncaught exception).
Finished(s) == pc[s] = "idle" /\ screen[s] # {}

\* The call of line 28 has returned in the session's current or last run.
PastLoad(s) == pc[s] = "script" \/ (Finished(s) /\ crashAt[s] # "load_model")

\* The session's last run was a predict interaction and has ended.
PressFinished(s) == Finished(s) /\ pressed[s]

\* The record lines 85-89 are meant to build from the session's sliders.
ExpectedRecord(s) ==
    <<<<Columns[1], widgets[s].amina>>, <<Columns[2], widgets[s].air>>,
      <<Columns[3], widgets[s].iron>>>>

\* C1: with a valid model file, however many runs call load_model,
\* joblib.load is executed at most once, one Model object exists, and every
\* call that has returned gave the cached Model.
C1_LoadMemoized ==
    file = "valid" =>
        /\ loads <= 1
        /\ instances <= 1
        /\ \A s \in Sessions :
              PastLoad(s) => /\ model[s].kind = "Model"
                             /\ cache[ModelPath].present
                             /\ model[s] = cache[ModelPath].value

\* C1 witness: a valid file, three or more runs started, every session has
\* finished a run, one deserialisation.
C1_Witness ==
    /\ file = "valid"
    /\ runs >= 3
    /\ loads = 1
    /\ \A s \in Sessions : Finished(s) /\ model[s].kind = "Model"

\* C2: with no file at the path, every call of load_model, first or
\* repeated, reports the load error and returns no model, and no run ends
\* with an exception raised by load_model.
C2_MissingFileIsValue ==
    file = "missing" =>
        \A s \in Sessions :
            (pc[s] = "script" \/ Finished(s)) =>
                /\ model[s] = None
                /\ El("load_error") \in screen[s]
                /\ crashAt[s] # "load_model"

\* C2 witness: no file, the loader body ran once, both sessions have
\* finished a run (one of them served from the cache) without a model.
C2_Witness ==
    /\ file = "missing"
    /\ loads = 1
    /\ runs >= 3
    /\ \A s \in Sessions : Finished(s) /\ model[s] = None

\* C3 as stated: with a file that exists but does not deserialise, the run
\* continues past the load, shows the warning and offers no prediction
\* (stated for a toolkit that renders the sliders, so that only the load
\* decides it).
C3_CorruptIsNonFatal ==
    (file = "corrupt" /\ sliderOk) =>
        \A s \in Sessions :
            Finished(s) => /\ crashAt[s] # "load_model"
                           /\ El("warning") \in screen[s]
                           /\ El("button") \notin screen[s]

\* C4 as stated: a predict interaction against a model whose predict raises
\* ends with the prediction error shown and no uncaught exception.
C4_PredictErrorSurfaced ==
    \A s \in Sessions :
        (PressFinished(s) /\ stub.kind = "raises") =>
            /\ El("predict_error") \in screen[s]
            /\ crashAt[s] = "none"

\* C5 as stated: a predict interaction against a stub returning v shows v
\* formatted to two decimals.
C5_PassThrough ==
    \A s \in Sessions :
        (PressFinished(s) /\ stub.kind = "returns") =>
            ElV("success", Format2f(stub.value)) \in screen[s]

\* C6 as stated: a run that ends with no model shows the load warning, offers
\* no predict button, shows no result and calls predict never (stated for a
\* toolkit that renders the sliders).
C6_NoModelDisablesPredict ==
    \A s \in Sessions :
        (sliderOk /\ Finished(s) /\ model[s].kind # "Model") =>
            /\ El("warning") \in screen[s]
            /\ El("button") \notin screen[s]
            /\ \A e \in screen[s] : e.tag # "success"
            /\ predictCalls = <<>>

\* C7 as stated: a predict interaction with every slider at its minimum or
\* maximum, against a model whose predict succeeds, ends without an error.
C7_BoundaryInputsComplete ==
    \A s \in Sessions :
        ( /\ PressFinished(s)
          /\ stub.kind = "returns"
          /\ widgets[s].amina \in {AminaMin, AminaMax}
          /\ widgets[s].air \in {AirMin, AirMax}
          /\ widgets[s].iron \in {IronMin, IronMax} ) =>
            crashAt[s] = "none"

\* C8 as stated: over all sessions and interleavings joblib.load is executed
\* at most once and every call of load_model returns the same value.
C8_AtMostOneLoad ==
    sliderOk =>
    /\ loads <= 1
    /\ \A s, u \in Sessions : (PastLoad(s) /\ PastLoad(u)) => model[s] = model[u]

\* C9 as stated: a predict interaction passes to model.predict the one-row
\* record of the three slider values under their column labels, in order.
C9_RecordPassedToPredict ==
    \A s \in Sessions :
        PressFinished(s) =>
            \E i \in 1..Len(predictCalls) : predictCalls[i] = ExpectedRecord(s)

====
